---- MODULE Spec2Model ----
(***************************************************************************)
(* A model of the drag-and-drop project board: the ProjectState store, its *)
(* listeners, the two ProjectList views with their <ul> elements, the      *)
(* ProjectInput form and the HTML5 drag events that drive them.            *)
(*                                                                         *)
(* Project objects live in a heap (a sequence of records; a reference is   *)
(* an index into it), because the store's array, the snapshots handed to   *)
(* the listeners, the views' assignedProjects and the rendered items all   *)
(* hold references to the SAME objects.  The page is single-threaded: a    *)
(* handler that mutates the store runs in steps (the mutation, one step    *)
(* per listener call, the return); while it runs (pc = "notify") no other  *)
(* event is delivered, so its steps are never interleaved with anything.   *)
(***************************************************************************)
EXTENDS Integers, Sequences, FiniteSets, TLC

\* ---------------------------------------------------------------- bounds
MaxProjects == 2      \* accepted submits per behaviour
NumIds == 2           \* distinct values Math.random() is let to return

\* ------------------------------------------------------- program constants
DescriptionMinLength == 5   \* gatherUserInput: minLength: 5
PeopleMin == 1              \* gatherUserInput: min: 1
PeopleMax == 5              \* gatherUserInput: max: 5

VARIABLES
    heap,                     \* the Project objects, by reference
    projects,                 \* ProjectState.projects: references
    listeners,                \* State.listeners: the list owning each callback
    assignedProjects,         \* ProjectList.assignedProjects, per list
    listEl,                   \* children of each list's <ul>
    droppable,                \* "droppable" in each <ul>'s classList
    titleInputElement,        \* value of #title
    descriptionInputElement,  \* value of #description
    peopleInputElement,       \* value of #people
    dataTransfer,             \* the drag data store of the drag in progress
    over,                     \* the list the drag is over, and whether its
                              \* last dragover was accepted
    pc, caller, idx,          \* position of the running handler
    log,                      \* calls made by the current or last handler
    delivered                 \* last snapshot handed to each list's listener:
                              \* the array, and what it held when handed over

vars == <<heap, projects, listeners, assignedProjects, listEl, droppable,
          titleInputElement, descriptionInputElement, peopleInputElement,
          dataTransfer, over, pc, caller, idx, log, delivered>>

\* ------------------------------------------------------------ ProjectStatus
Active == "Active"
Finished == "Finished"
ProjectStatus == {Active, Finished}

ListTypes == {"active", "finished"}

\* this.type === "active" ? ProjectStatus.Active : ProjectStatus.Finished
StatusOf(type) == IF type = "active" THEN Active ELSE Finished

\* Math.random().toString(): the number's shortest decimal form, which is
\* distinct for distinct numbers; an id is modelled by the number drawn.
Ids == 1..NumIds

\* a text that is the id of no project
NoId == 0

\* ------------------------------------------------------------------ strings
\* A string is the sequence of its characters.
Str(s) == [type |-> "string", chars |-> s]
NaN == [type |-> "number", nan |-> TRUE, val |-> 0]
Num(n) == [type |-> "number", nan |-> FALSE, val |-> n]

Digits == <<"0", "1", "2", "3", "4", "5", "6", "7", "8", "9">>
IsDigit(c) == \E d \in 1..Len(Digits) : Digits[d] = c
DigitVal(c) == (CHOOSE d \in 1..Len(Digits) : Digits[d] = c) - 1

RECURSIVE trimStart(_)
trimStart(s) ==
    IF s # <<>> /\ Head(s) = " " THEN trimStart(Tail(s)) ELSE s

RECURSIVE trimEnd(_)
trimEnd(s) ==
    IF s # <<>> /\ s[Len(s)] = " "
    THEN trimEnd(SubSeq(s, 1, Len(s) - 1))
    ELSE s

\* String.prototype.trim
trim(s) == trimEnd(trimStart(s))

RECURSIVE DecimalValue(_)
DecimalValue(s) ==
    IF s = <<>> THEN 0
    ELSE 10 * DecimalValue(SubSeq(s, 1, Len(s) - 1)) + DigitVal(s[Len(s)])

\* unary plus on a string: blank is 0, a run of digits is its value,
\* anything else over the model's alphabet is NaN
ToNumber(s) ==
    LET t == trim(s) IN
    IF t = <<>> THEN Num(0)
    ELSE IF \A i \in 1..Len(t) : IsDigit(t[i]) THEN Num(DecimalValue(t))
    ELSE NaN

RECURSIVE NatToString(_)
NatToString(n) ==
    IF n < 10 THEN <<Digits[n + 1]>>
    ELSE NatToString(n \div 10) \o <<Digits[(n % 10) + 1]>>

\* value.toString() of a Validatable's value
toString(v) ==
    IF v.type = "string" THEN v.chars
    ELSE IF v.nan THEN <<"N", "a", "N">>
    ELSE NatToString(v.val)

\* ----------------------------------------------------------------- validate
\* A Validatable is a record; an optional constraint that is absent is a
\* field that is absent.
Has(v, f) == f \in DOMAIN v

\* validate with every bound taken as inclusive (>= and <=)
validateInclusive(v) ==
    LET v0 == TRUE
        v1 == IF Has(v, "required") /\ v.required
              THEN v0 /\ Len(trim(toString(v.value))) # 0
              ELSE v0
        v2 == IF Has(v, "minLength") /\ v.value.type = "string"
              THEN v1 /\ Len(v.value.chars) >= v.minLength
              ELSE v1
        v3 == IF Has(v, "maxLength") /\ v.value.type = "string"
              THEN v2 /\ Len(v.value.chars) <= v.maxLength
              ELSE v2
        v4 == IF Has(v, "min") /\ v.value.type = "number"
              THEN v3 /\ (~v.value.nan /\ v.value.val >= v.min)
              ELSE v3
        v5 == IF Has(v, "max") /\ v.value.type = "number"
              THEN v4 /\ (~v.value.nan /\ v.value.val <= v.max)
              ELSE v4
    IN v5

validate(v) ==
    LET v0 == TRUE
        v1 == IF Has(v, "required") /\ v.required
              THEN v0 /\ Len(trim(toString(v.value))) # 0
              ELSE v0
        v2 == IF Has(v, "minLength") /\ v.value.type = "string"
              THEN v1 /\ Len(v.value.chars) > v.minLength
              ELSE v1
        v3 == IF Has(v, "maxLength") /\ v.value.type = "string"
              THEN v2 /\ Len(v.value.chars) < v.maxLength
              ELSE v2
        v4 == IF Has(v, "min") /\ v.value.type = "number"
              THEN v3 /\ (~v.value.nan /\ v.value.val > v.min)
              ELSE v3
        v5 == IF Has(v, "max") /\ v.value.type = "number"
              THEN v4 /\ (~v.value.nan /\ v.value.val < v.max)
              ELSE v4
    IN v5


\* ------------------------------------------------------------------ Project
Project(id, title, description, people, status) ==
    [id |-> id, title |-> title, description |-> description,
     people |-> people, status |-> status]

\* what an array of references holds: the objects it points to
Resolve(refs, h) == [i \in 1..Len(refs) |-> h[refs[i]]]

\* ------------------------------------------------------------- ProjectState
Undefined == 0

\* find as a search from the end of the array would do it: the last match
findLast(prjs, h, projectId) ==
    LET hits == {i \in 1..Len(prjs) : h[prjs[i]].id = projectId} IN
    IF hits = {} THEN Undefined
    ELSE prjs[CHOOSE i \in hits : \A j \in hits : i >= j]

\* this.projects.find((prj) => prj.id === projectId): the first match
find(prjs, h, projectId) ==
    LET hits == {i \in 1..Len(prjs) : h[prjs[i]].id = projectId} IN
    IF hits = {} THEN Undefined
    ELSE prjs[CHOOSE i \in hits : \A j \in hits : i <= j]

\* addProject with unshift in place of push
addProjectFront(h, prjs, id, title, description, numOfPeople) ==
    [heap |-> Append(h, Project(id, title, description, numOfPeople, Active)),
     projects |-> <<Len(h) + 1>> \o prjs]

\* addProject with this.projects = [newProject] in place of the push
addProjectReplace(h, prjs, id, title, description, numOfPeople) ==
    [heap |-> Append(h, Project(id, title, description, numOfPeople, Active)),
     projects |-> <<Len(h) + 1>>]

\* addProject up to the push: a new object, its reference pushed last
addProject(h, prjs, id, title, description, numOfPeople) ==
    [heap |-> Append(h, Project(id, title, description, numOfPeople, Active)),
     projects |-> Append(prjs, Len(h) + 1)]

\* moveProject with the call of updateListeners placed after the if
moveProjectNotifyOutside(h, prjs, projectId, newStatus) ==
    LET project == find(prjs, h, projectId) IN
    IF project # Undefined /\ h[project].status # newStatus
    THEN [heap |-> [h EXCEPT ![project].status = newStatus], notify |-> TRUE]
    ELSE [heap |-> h, notify |-> TRUE]

\* moveProject with the condition if (project)
moveProjectNoStatusCheck(h, prjs, projectId, newStatus) ==
    LET project == find(prjs, h, projectId) IN
    IF project # Undefined
    THEN [heap |-> [h EXCEPT ![project].status = newStatus], notify |-> TRUE]
    ELSE [heap |-> h, notify |-> FALSE]

\* moveProject up to the call of updateListeners: the new heap, and whether
\* updateListeners is called
moveProject(h, prjs, projectId, newStatus) ==
    LET project == find(prjs, h, projectId) IN
    IF project # Undefined /\ h[project].status # newStatus
    THEN [heap |-> [h EXCEPT ![project].status = newStatus], notify |-> TRUE]
    ELSE [heap |-> h, notify |-> FALSE]

\* updateListeners looping from the last listener to the first
ListenerAtReversed(ls, i) == ls[Len(ls) + 1 - i]

\* updateListeners: for (const listenerFn of this.listeners), the i-th call
ListenerAt(ls, i) == ls[i]

\* An array handed out by the store is either the store's own array (it
\* then holds whatever the store's array holds now) or a separate array
\* with elements of its own.
Elements(array, prjs) == IF array.shared THEN prjs ELSE array.refs

\* listenerFn(this.projects): the store's own array is handed out
sliceShared(prjs) == [shared |-> TRUE, refs |-> prjs]

\* this.projects.slice(): a new array holding the same references
slice(prjs) == [shared |-> FALSE, refs |-> prjs]

\* -------------------------------------------------------------- ProjectItem
Assigned == <<" ", "a", "s", "s", "i", "g", "n", "e", "d">>

\* get persons()
persons(people) ==
    IF people = Num(1) THEN <<"1", " ", "p", "e", "r", "s", "o", "n">>
    ELSE toString(people) \o <<" ", "p", "e", "r", "s", "o", "n", "s">>

\* new ProjectItem(hostId, project): the <li> it appends to the host
ProjectItem(ref, h) ==
    [project |-> ref,
     id |-> h[ref].id,
     h2 |-> h[ref].title,
     h3 |-> persons(h[ref].people) \o Assigned,
     p |-> h[ref].description]

\* -------------------------------------------------------------- ProjectList
\* the filter of the store listener of the list of this type
relevantProjects(type, items, h) ==
    SelectSeq(items,
              LAMBDA r : IF type = "active"
                         THEN h[r].status = Active
                         ELSE h[r].status = Finished)

\* renderProjects without listEl.innerHTML = ""
renderProjectsNoClear(ul, assigned, h) ==
    ul \o [i \in 1..Len(assigned) |-> ProjectItem(assigned[i], h)]

\* renderProjects with each item inserted "afterbegin" (insertAtStart true)
renderProjectsAfterBegin(ul, assigned, h) ==
    LET cleared == <<>> IN
    cleared \o [i \in 1..Len(assigned) |->
                   ProjectItem(assigned[Len(assigned) + 1 - i], h)]

\* renderProjects: the <ul> is emptied, then one item per assigned project
\* is appended
renderProjects(ul, assigned, h) ==
    LET cleared == <<>> IN
    cleared \o [i \in 1..Len(assigned) |-> ProjectItem(assigned[i], h)]

\* the projects a <ul> shows, in display order
Shown(ul) == [i \in 1..Len(ul) |-> ul[i].project]

\* ------------------------------------------------------------- DataTransfer
\* The drag in progress: the types and the text of its DataTransfer, and
\* the project of the item being dragged (Undefined when the drag did not
\* start on an item of the board).
Null == [dragging |-> FALSE, types |-> <<>>, text |-> NoId, source |-> Undefined]

\* dragStartHandler: setData("text/plain", this.project.id)
dragStartHandler(item, h) ==
    [dragging |-> TRUE, types |-> <<"text/plain">>, text |-> h[item.project].id,
     source |-> item.project]

\* drags that start outside the board: a file, a link, a piece of text
ForeignDrags ==
    {[dragging |-> TRUE, types |-> <<"Files">>, text |-> NoId,
      source |-> Undefined],
     [dragging |-> TRUE, types |-> <<"text/uri-list", "text/plain">>,
      text |-> NoId, source |-> Undefined],
     [dragging |-> TRUE, types |-> <<"text/plain">>, text |-> NoId,
      source |-> Undefined]}

\* dataTransfer.getData(format)
getData(dt, format) ==
    IF \E i \in 1..Len(dt.types) : dt.types[i] = format THEN dt.text ELSE NoId

\* dragOverHandler testing whether any declared type is text/plain
dragOverAcceptsAnyType(dt) ==
    dt # Null /\ \E i \in 1..Len(dt.types) : dt.types[i] = "text/plain"

\* the condition of dragOverHandler
dragOverAccepts(dt) ==
    dt # Null /\ Len(dt.types) > 0 /\ dt.types[1] = "text/plain"

NoTarget == [target |-> "none", accepted |-> FALSE]

\* ------------------------------------------------------------- ProjectInput
TitleInputs == {<<" ">>, <<"a">>}
DescriptionInputs == {<<"a", "b", "c", "d", "e">>, <<"a", "b", "c", "d", "e", "f">>}
PeopleInputs == {<<"1">>, <<"3">>}

\* gatherUserInput with the title left out of the condition
gatherUserInputNoTitle(enteredTitle, enteredDescription, enteredPeople) ==
    LET descriptionValidatable ==
            [value |-> Str(enteredDescription), required |-> TRUE,
             minLength |-> DescriptionMinLength]
        peopleValidatable ==
            [value |-> ToNumber(enteredPeople), required |-> TRUE,
             min |-> PeopleMin, max |-> PeopleMax]
    IN
    IF \/ ~validate(descriptionValidatable)
       \/ ~validate(peopleValidatable)
    THEN [isArray |-> FALSE]
    ELSE [isArray |-> TRUE, title |-> enteredTitle,
          description |-> enteredDescription,
          people |-> ToNumber(enteredPeople)]

\* gatherUserInput with max left out of peopleValidatable
gatherUserInputNoMax(enteredTitle, enteredDescription, enteredPeople) ==
    LET titleValidatable == [value |-> Str(enteredTitle), required |-> TRUE]
        descriptionValidatable ==
            [value |-> Str(enteredDescription), required |-> TRUE,
             minLength |-> DescriptionMinLength]
        peopleValidatable ==
            [value |-> ToNumber(enteredPeople), required |-> TRUE,
             min |-> PeopleMin]
    IN
    IF \/ ~validate(titleValidatable)
       \/ ~validate(descriptionValidatable)
       \/ ~validate(peopleValidatable)
    THEN [isArray |-> FALSE]
    ELSE [isArray |-> TRUE, title |-> enteredTitle,
          description |-> enteredDescription,
          people |-> ToNumber(enteredPeople)]

gatherUserInput(enteredTitle, enteredDescription, enteredPeople) ==
    LET titleValidatable == [value |-> Str(enteredTitle), required |-> TRUE]
        descriptionValidatable ==
            [value |-> Str(enteredDescription), required |-> TRUE,
             minLength |-> DescriptionMinLength]
        peopleValidatable ==
            [value |-> ToNumber(enteredPeople), required |-> TRUE,
             min |-> PeopleMin, max |-> PeopleMax]
    IN
    IF \/ ~validate(titleValidatable)
       \/ ~validate(descriptionValidatable)
       \/ ~validate(peopleValidatable)
    THEN [isArray |-> FALSE]
    ELSE [isArray |-> TRUE, title |-> enteredTitle,
          description |-> enteredDescription,
          people |-> ToNumber(enteredPeople)]

clearInputs ==
    /\ titleInputElement' = <<>>
    /\ descriptionInputElement' = <<>>
    /\ peopleInputElement' = <<>>


\* --------------------------------------------------------------------- Init
\* The state once the script has run: the store is empty, the Active list
\* and then the Finished list have registered their listeners.
Init ==
    /\ heap = <<>>
    /\ projects = <<>>
    /\ listeners = <<"active", "finished">>
    /\ assignedProjects = [l \in ListTypes |-> <<>>]
    /\ listEl = [l \in ListTypes |-> <<>>]
    /\ droppable = [l \in ListTypes |-> FALSE]
    /\ titleInputElement = <<>>
    /\ descriptionInputElement = <<>>
    /\ peopleInputElement = <<>>
    /\ dataTransfer = Null
    /\ over = NoTarget
    /\ pc = "idle"
    /\ caller = "none"
    /\ idx = 0
    /\ log = <<>>
    /\ delivered = [l \in ListTypes |->
                      [array |-> [shared |-> FALSE, refs |-> <<>>],
                       items |-> <<>>, contents |-> <<>>]]

Idle == pc = "idle"

storeVars == <<heap, projects, listeners>>
viewVars == <<assignedProjects, listEl, delivered>>
inputVars == <<titleInputElement, descriptionInputElement, peopleInputElement>>
dragVars == <<dataTransfer, over>>
pcVars == <<pc, caller, idx>>

\* ------------------------------------------------------ the user at the form
TypeTitle ==
    /\ Idle /\ dataTransfer = Null
    /\ \E t \in TitleInputs : titleInputElement' = t
    /\ log' = <<>>
    /\ UNCHANGED <<storeVars, viewVars, droppable, descriptionInputElement,
                   peopleInputElement, dragVars, pcVars>>

TypeDescription ==
    /\ Idle /\ dataTransfer = Null
    /\ \E d \in DescriptionInputs : descriptionInputElement' = d
    /\ log' = <<>>
    /\ UNCHANGED <<storeVars, viewVars, droppable, titleInputElement,
                   peopleInputElement, dragVars, pcVars>>

TypePeople ==
    /\ Idle /\ dataTransfer = Null
    /\ \E n \in PeopleInputs : peopleInputElement' = n
    /\ log' = <<>>
    /\ UNCHANGED <<storeVars, viewVars, droppable, titleInputElement,
                   descriptionInputElement, dragVars, pcVars>>

\* ------------------------------------------------------------ submitHandler
\* Rejected input: gatherUserInput alerts and returns nothing, and the
\* handler goes on to its last statement, clearInputs().
SubmitInvalid ==
    /\ Idle /\ dataTransfer = Null
    /\ ~gatherUserInput(titleInputElement, descriptionInputElement,
                        peopleInputElement).isArray
    /\ log' = <<[call |-> "alert"]>>
    /\ clearInputs
    /\ UNCHANGED <<storeVars, viewVars, droppable, dragVars, pcVars>>

\* Accepted input: addProject builds the project and pushes it, then
\* updateListeners starts.
SubmitValid ==
    /\ Idle /\ dataTransfer = Null
    /\ Len(projects) < MaxProjects
    /\ LET userInput == gatherUserInput(titleInputElement,
                                        descriptionInputElement,
                                        peopleInputElement)
       IN /\ userInput.isArray
          /\ \E random \in Ids :
                LET r == addProject(heap, projects, random, userInput.title,
                                    userInput.description, userInput.people)
                IN /\ heap' = r.heap
                   /\ projects' = r.projects
    /\ log' = <<[call |-> "addProject"]>>
    /\ pc' = "notify" /\ caller' = "submit" /\ idx' = 1
    /\ UNCHANGED <<listeners, viewVars, droppable, inputVars, dragVars>>

\* ---------------------------------------------------------- updateListeners
\* One iteration of the loop: the listener of a list filters the snapshot,
\* stores the result in assignedProjects and renders it.
CallListener ==
    /\ pc = "notify" /\ idx <= Len(listeners)
    /\ LET type == ListenerAt(listeners, idx)
           snapshot == slice(projects)
           items == Elements(snapshot, projects)
           relevant == relevantProjects(type, items, heap)
       IN /\ assignedProjects' = [assignedProjects EXCEPT ![type] = relevant]
          /\ listEl' = [listEl EXCEPT
                          ![type] = renderProjects(listEl[type], relevant, heap)]
          /\ delivered' = [delivered EXCEPT
                             ![type] = [array |-> snapshot,
                                        items |-> items,
                                        contents |-> Resolve(items, heap)]]
          /\ log' = Append(log, [call |-> "listener", type |-> type,
                                 items |-> items,
                                 contents |-> Resolve(items, heap)])
    /\ idx' = idx + 1
    /\ UNCHANGED <<storeVars, droppable, inputVars, dragVars, pc, caller>>

\* updateListeners and addProject return into submitHandler, which clears
\* the fields (twice).
SubmitReturn ==
    /\ pc = "notify" /\ idx > Len(listeners) /\ caller = "submit"
    /\ clearInputs
    /\ pc' = "idle" /\ caller' = "none" /\ idx' = 0
    /\ UNCHANGED <<storeVars, viewVars, droppable, dragVars, log>>

\* updateListeners and moveProject return into dropHandler; the drag is over.
DropReturn ==
    /\ pc = "notify" /\ idx > Len(listeners) /\ caller = "drop"
    /\ dataTransfer' = Null /\ over' = NoTarget
    /\ pc' = "idle" /\ caller' = "none" /\ idx' = 0
    /\ UNCHANGED <<storeVars, viewVars, droppable, inputVars, log>>

\* ------------------------------------------------------------ drag and drop
\* dragstart on a displayed item
DragStart ==
    /\ Idle /\ dataTransfer = Null
    /\ \E l \in ListTypes : \E i \in 1..Len(listEl[l]) :
          dataTransfer' = dragStartHandler(listEl[l][i], heap)
    /\ log' = <<>>
    /\ UNCHANGED <<storeVars, viewVars, droppable, inputVars, over, pcVars>>

\* a drag that starts outside the board enters the page
ForeignDragStart ==
    /\ Idle /\ dataTransfer = Null
    /\ \E dt \in ForeignDrags : dataTransfer' = dt
    /\ log' = <<>>
    /\ UNCHANGED <<storeVars, viewVars, droppable, inputVars, over, pcVars>>

\* dragover on a list; the browser has sent dragleave to the list the drag
\* was over before
DragOver ==
    /\ Idle /\ dataTransfer # Null
    /\ \E l \in ListTypes :
          /\ over.target \in {"none", l}
          /\ IF dragOverAccepts(dataTransfer)
             THEN /\ droppable' = [droppable EXCEPT ![l] = TRUE]
                  /\ over' = [target |-> l, accepted |-> TRUE]
             ELSE /\ droppable' = droppable
                  /\ over' = [target |-> l, accepted |-> FALSE]
          /\ log' = <<[call |-> "dragover", type |-> l,
                       dataTransfer |-> dataTransfer,
                       defaultPrevented |-> dragOverAccepts(dataTransfer)]>>
    /\ UNCHANGED <<storeVars, viewVars, inputVars, dataTransfer, pcVars>>

\* a dragover event that carries no dataTransfer
DragOverNoData ==
    /\ Idle
    /\ \E l \in ListTypes :
          /\ IF dragOverAccepts(Null)
             THEN droppable' = [droppable EXCEPT ![l] = TRUE]
             ELSE droppable' = droppable
          /\ log' = <<[call |-> "dragover", type |-> l,
                       dataTransfer |-> Null,
                       defaultPrevented |-> dragOverAccepts(Null)]>>
    /\ UNCHANGED <<storeVars, viewVars, inputVars, dragVars, pcVars>>

\* dragleave on the list the drag is over
DragLeave ==
    /\ Idle /\ over.target # "none"
    /\ droppable' = [droppable EXCEPT ![over.target] = FALSE]
    /\ over' = NoTarget
    /\ log' = <<>>
    /\ UNCHANGED <<storeVars, viewVars, inputVars, dataTransfer, pcVars>>

\* the drag ends without a drop: dragEndHandler only logs
DragEnd ==
    /\ Idle /\ dataTransfer # Null /\ over.target = "none"
    /\ dataTransfer' = Null
    /\ log' = <<>>
    /\ UNCHANGED <<storeVars, viewVars, droppable, inputVars, over, pcVars>>

\* drop on the list whose last dragover was accepted, moveProject finding
\* nothing to change: dropHandler returns and the drag is over
DropNoChange ==
    /\ Idle /\ over.target # "none" /\ over.accepted
    /\ LET projId == getData(dataTransfer, "text/plain")
           newStatus == StatusOf(over.target)
           r == moveProject(heap, projects, projId, newStatus)
       IN /\ ~r.notify
          /\ heap' = r.heap
          /\ log' = <<[call |-> "moveProject", projectId |-> projId,
                       newStatus |-> newStatus]>>
    /\ dataTransfer' = Null /\ over' = NoTarget
    /\ UNCHANGED <<projects, listeners, viewVars, droppable, inputVars, pcVars>>

\* drop on the list whose last dragover was accepted, moveProject changing
\* the status: updateListeners starts
DropMove ==
    /\ Idle /\ over.target # "none" /\ over.accepted
    /\ LET projId == getData(dataTransfer, "text/plain")
           newStatus == StatusOf(over.target)
           r == moveProject(heap, projects, projId, newStatus)
       IN /\ r.notify
          /\ heap' = r.heap
          /\ log' = <<[call |-> "moveProject", projectId |-> projId,
                       newStatus |-> newStatus]>>
    /\ pc' = "notify" /\ caller' = "drop" /\ idx' = 1
    /\ UNCHANGED <<projects, listeners, viewVars, droppable, inputVars, dragVars>>

Next ==
    \/ TypeTitle \/ TypeDescription \/ TypePeople
    \/ SubmitInvalid \/ SubmitValid
    \/ CallListener \/ SubmitReturn \/ DropReturn
    \/ DragStart \/ ForeignDragStart
    \/ DragOver \/ DragOverNoData \/ DragLeave \/ DragEnd
    \/ DropNoChange \/ DropMove

Spec == Init /\ [][Next]_vars


\* ===================================================================== claims
Range(f) == {f[i] : i \in DOMAIN f}

\* the projects of the store that have a status
WithStatus(status) == {r \in Range(projects) : heap[r].status = status}

\* the calls of the listener of a list that a log records
ListenerCalls(lg, l) ==
    {i \in 1..Len(lg) : lg[i].call = "listener" /\ lg[i].type = l}

EachListenerOnce(lg) ==
    \A i \in 1..Len(listeners) :
        Cardinality(ListenerCalls(lg, listeners[i])) = 1

\* a step in which submitHandler calls addProject
AddProjectStep == pc = "idle" /\ pc' = "notify" /\ caller' = "submit"

\* a step in which dropHandler calls moveProject (log' records its arguments)
MoveProjectStep ==
    /\ pc = "idle" /\ over.target # "none" /\ over.accepted
    /\ Len(log') = 1 /\ log'[1].call = "moveProject"

\* the first project in collection order with an id, as an index; 0 if none
FirstIndexWithId(id) ==
    IF \E i \in 1..Len(projects) : heap[projects[i]].id = id
    THEN CHOOSE i \in 1..Len(projects) :
            /\ heap[projects[i]].id = id
            /\ \A j \in 1..(i - 1) : heap[projects[j]].id # id
    ELSE 0

\* C1: whenever no handler is running (every notification has completed),
\* each list's <ul> shows no project twice and shows exactly the projects
\* of the store that have the list's status.
C1_FilteringInvariant ==
    Idle =>
      \A l \in ListTypes :
        /\ \A i, j \in 1..Len(listEl[l]) :
              listEl[l][i].project = listEl[l][j].project => i = j
        /\ Range(Shown(listEl[l])) = WithStatus(StatusOf(l))

\* C1 witness: after a notification both lists show something
C1_Witness ==
    /\ Idle
    /\ Len(log) > 1
    /\ listEl["active"] # <<>>
    /\ listEl["finished"] # <<>>

\* C2: a call of addProject appends one new Active project at the end of
\* the collection and leaves the projects already there, and their order,
\* as they were; nothing else changes the collection until the call
\* returns, and by then each registered listener was called exactly once.
C2_AddProjectAppends ==
    [][ /\ AddProjectStep =>
             /\ Len(projects') = Len(projects) + 1
             /\ SubSeq(projects', 1, Len(projects)) = projects
             /\ projects'[Len(projects')] \notin Range(projects)
             /\ heap'[projects'[Len(projects')]].status = Active
             /\ Resolve(projects, heap') = Resolve(projects, heap)
        /\ (pc = "notify" /\ caller = "submit") =>
             /\ projects' = projects
             /\ heap' = heap
        /\ (pc = "notify" /\ caller = "submit" /\ pc' = "idle") =>
             EachListenerOnce(log')
      ]_vars

\* C2 witness: addProject has returned with a project already in the store
C2_Witness ==
    /\ Idle
    /\ Len(projects) = 2
    /\ log # <<>> /\ log[1].call = "addProject"

\* C3: a moveProject whose id matches no project leaves the collection as
\* it is and calls no listener.
C3_UnknownIdNoOp ==
    [][ (MoveProjectStep /\ FirstIndexWithId(log'[1].projectId) = 0) =>
            /\ projects' = projects
            /\ heap' = heap
            /\ pc' = "idle"
            /\ \A l \in ListTypes : ListenerCalls(log', l) = {}
            /\ listEl' = listEl /\ assignedProjects' = assignedProjects
      ]_vars

\* C3 witness: a drop whose payload is no project's id has been handled
\* with projects in the store
C3_Witness ==
    /\ Idle
    /\ projects # <<>>
    /\ Len(log) = 1 /\ log[1].call = "moveProject"
    /\ FirstIndexWithId(log[1].projectId) = 0

\* C4: a moveProject to the status the found project already has leaves
\* the collection as it is and calls no listener; and in every state a
\* moveProject applied twice with the same arguments does the second time
\* nothing.
C4_SameStatusNoOp ==
    /\ [][ (/\ MoveProjectStep
            /\ FirstIndexWithId(log'[1].projectId) # 0
            /\ heap[projects[FirstIndexWithId(log'[1].projectId)]].status
                 = log'[1].newStatus) =>
               /\ projects' = projects
               /\ heap' = heap
               /\ pc' = "idle"
               /\ \A l \in ListTypes : ListenerCalls(log', l) = {}
         ]_vars
    /\ [](\A id \in Ids \cup {NoId} : \A status \in ProjectStatus :
            LET first == moveProject(heap, projects, id, status)
                second == moveProject(first.heap, projects, id, status)
            IN second.heap = first.heap /\ ~second.notify)

\* C4 witness: a drop of a project on the list of its own status has been
\* handled
C4_Witness ==
    /\ Idle
    /\ Len(log) = 1 /\ log[1].call = "moveProject"
    /\ FirstIndexWithId(log[1].projectId) # 0
    /\ heap[projects[FirstIndexWithId(log[1].projectId)]].status
         = log[1].newStatus

\* C5: a moveProject that finds a project of another status sets the
\* status of the first project in collection order with that id, changes
\* nothing else of the collection, nothing changes the collection until
\* the call returns, and by then each registered listener was called
\* exactly once.
C5_MoveChangesOnlyStatus ==
    [][ /\ (/\ MoveProjectStep
            /\ FirstIndexWithId(log'[1].projectId) # 0
            /\ heap[projects[FirstIndexWithId(log'[1].projectId)]].status
                 # log'[1].newStatus) =>
               LET target == projects[FirstIndexWithId(log'[1].projectId)] IN
               /\ projects' = projects
               /\ heap' = [heap EXCEPT ![target].status = log'[1].newStatus]
               /\ pc' = "notify"
        /\ (pc = "notify" /\ caller = "drop") =>
               /\ projects' = projects
               /\ heap' = heap
        /\ (pc = "notify" /\ caller = "drop" /\ pc' = "idle") =>
               EachListenerOnce(log')
      ]_vars

\* C5 witness: a move has returned in a store where two projects have the
\* moved id, and only the first of them changed status
C5_Witness ==
    /\ Idle
    /\ Len(log) > 1 /\ log[1].call = "moveProject"
    /\ Len(projects) = 2
    /\ heap[projects[1]].id = heap[projects[2]].id
    /\ heap[projects[1]].status = Finished
    /\ heap[projects[2]].status = Active


\* C6: a mutation that changes the collection starts the notification; when
\* the mutation call returns, the listeners have been called once each in
\* registration order (the Active list's before the Finished list's), each
\* with a snapshot that holds the whole collection, the change included.
C6_ListenersInOrderBeforeReturn ==
    [][ /\ (pc = "idle" /\ (heap' # heap \/ projects' # projects)) =>
               /\ pc' = "notify" /\ idx' = 1
               /\ \A l \in ListTypes : ListenerCalls(log', l) = {}
        /\ (pc = "notify" /\ pc' = "idle") =>
               /\ Len(log') = 1 + Len(listeners)
               /\ \A i \in 1..Len(listeners) :
                     /\ log'[i + 1].call = "listener"
                     /\ log'[i + 1].type = listeners[i]
                     /\ log'[i + 1].items = projects'
                     /\ log'[i + 1].contents = Resolve(projects', heap')
               /\ log'[2].type = "active"
               /\ log'[3].type = "finished"
      ]_vars

\* C6 witness: a move has returned after both listeners were called with
\* the two projects of the store
C6_Witness ==
    /\ Idle
    /\ Len(log) = 3 /\ log[1].call = "moveProject"
    /\ log[2].call = "listener" /\ Len(log[2].items) = 2
    /\ log[3].call = "listener" /\ Len(log[3].items) = 2

\* C7 as stated: the last snapshot handed to each listener holds now what
\* it held when it was handed over: the same projects in the same order,
\* each with the status it had then.
C7_SnapshotFixed ==
    \A l \in ListTypes :
        LET now == Elements(delivered[l].array, projects) IN
        /\ now = delivered[l].items
        /\ Resolve(now, heap) = delivered[l].contents

\* C7 amended: the last snapshot handed to each listener holds the same
\* projects in the same order as when it was handed over, each with the
\* id, title, description and people it had then (the status may differ).
C7_SnapshotMembersFixed ==
    \A l \in ListTypes :
        LET now == Elements(delivered[l].array, projects) IN
        /\ now = delivered[l].items
        /\ \A i \in 1..Len(now) :
              [heap[now[i]] EXCEPT !.status = delivered[l].contents[i].status]
                 = delivered[l].contents[i]

\* C7 witness: moveProject has changed a status that a snapshot handed over
\* before it still shows, in a store of two projects
C7_Witness ==
    /\ pc = "notify" /\ caller = "drop" /\ idx = 1
    /\ Len(projects) = 2
    /\ \E l \in ListTypes :
          /\ Len(delivered[l].items) = 2
          /\ Resolve(Elements(delivered[l].array, projects), heap)
               # delivered[l].contents

\* C8 as stated: the projects of the store have pairwise distinct ids.
C8_DistinctIds ==
    \A i, j \in 1..Len(projects) :
        heap[projects[i]].id = heap[projects[j]].id => i = j

\* a step in which submitHandler runs
SubmitStep ==
    /\ pc = "idle" /\ dataTransfer = Null
    /\ Len(log') = 1 /\ log'[1].call \in {"alert", "addProject"}

\* the fields fail the validation the form asks for: title required,
\* description required and longer than 5, people required and between the
\* bounds 1 and 5
FailsValidation ==
    \/ ~validate([value |-> Str(titleInputElement), required |-> TRUE])
    \/ ~validate([value |-> Str(descriptionInputElement), required |-> TRUE,
                  minLength |-> 5])
    \/ ~validate([value |-> ToNumber(peopleInputElement), required |-> TRUE,
                  min |-> 1, max |-> 5])

\* C9 as stated: a submit that fails validation leaves the three fields
\* with the values they had.
C9_InvalidSubmitKeepsFields ==
    [][ (SubmitStep /\ FailsValidation) =>
            /\ titleInputElement' = titleInputElement
            /\ descriptionInputElement' = descriptionInputElement
            /\ peopleInputElement' = peopleInputElement
      ]_vars

\* C10: a submit that fails validation raises one alert and nothing else:
\* addProject is not called, the collection is unchanged, no listener is
\* called and neither list renders.
C10_InvalidSubmitNoMutation ==
    [][ (SubmitStep /\ FailsValidation) =>
            /\ log' = <<[call |-> "alert"]>>
            /\ projects' = projects
            /\ heap' = heap
            /\ pc' = "idle"
            /\ assignedProjects' = assignedProjects
            /\ listEl' = listEl
            /\ delivered' = delivered
      ]_vars

\* C10 witness: a rejected submit has been handled with a project in the
\* store
C10_Witness ==
    /\ Idle
    /\ projects # <<>>
    /\ log = <<[call |-> "alert"]>>


\* ============================================== the form on its own: SpecSubmit
\* What the user may have typed into the three fields when submitting.
FormTitles == {<<>>, <<" ">>, <<"a">>, <<" ", "a", " ">>}
FormDescriptions ==
    {<<>>,
     <<"a", "b", "c", "d">>,
     <<"a", "b", "c", "d", "e">>,
     <<"a", "b", "c", "d", "e", "f">>,
     <<"a", "b", "c", "d", "e", " ">>,
     <<" ", " ", " ", " ", " ", " ">>,
     <<"a", "b", "c", "d", "e", "f", "g">>}
FormPeople ==
    {<<>>, <<" ">>, <<"0">>, <<"1">>, <<"2">>, <<"3">>, <<"4">>, <<"5">>,
     <<"6">>, <<"1", "0">>, <<" ", "3", " ">>, <<"x">>, <<"3", "x">>}

\* The board as the script leaves it, with the fields filled in.
InitSubmit ==
    /\ heap = <<>>
    /\ projects = <<>>
    /\ listeners = <<"active", "finished">>
    /\ assignedProjects = [l \in ListTypes |-> <<>>]
    /\ listEl = [l \in ListTypes |-> <<>>]
    /\ droppable = [l \in ListTypes |-> FALSE]
    /\ titleInputElement \in FormTitles
    /\ descriptionInputElement \in FormDescriptions
    /\ peopleInputElement \in FormPeople
    /\ dataTransfer = Null
    /\ over = NoTarget
    /\ pc = "idle"
    /\ caller = "none"
    /\ idx = 0
    /\ log = <<>>
    /\ delivered = [l \in ListTypes |->
                      [array |-> [shared |-> FALSE, refs |-> <<>>],
                       items |-> <<>>, contents |-> <<>>]]

NextSubmit == SubmitInvalid \/ SubmitValid \/ CallListener \/ SubmitReturn

SpecSubmit == InitSubmit /\ [][NextSubmit]_vars

\* the fields meet what the form asks for, said without validate: the title
\* is not blank, the description is not blank and longer than 5, the people
\* count is a number strictly between 1 and 5
FieldsAcceptable ==
    /\ \E i \in 1..Len(titleInputElement) : titleInputElement[i] # " "
    /\ \E i \in 1..Len(descriptionInputElement) :
          descriptionInputElement[i] # " "
    /\ Len(descriptionInputElement) > 5
    /\ ToNumber(peopleInputElement) \in {Num(2), Num(3), Num(4)}

\* C11: a submit calls addProject, with the title, description and people
\* count entered, exactly when the title is not blank, the description is
\* not blank and longer than 5 and the people count is 2, 3 or 4; the
\* fields are empty when an accepted submit returns.
C11_AcceptedExactlyWhenValid ==
    [][ /\ (SubmitStep /\ FieldsAcceptable) =>
              /\ log' = <<[call |-> "addProject"]>>
              /\ pc' = "notify"
              /\ Len(projects') = Len(projects) + 1
              /\ LET new == heap'[projects'[Len(projects')]] IN
                 /\ new.title = titleInputElement
                 /\ new.description = descriptionInputElement
                 /\ new.people = ToNumber(peopleInputElement)
        /\ (SubmitStep /\ ~FieldsAcceptable) =>
              /\ log' = <<[call |-> "alert"]>>
              /\ pc' = "idle"
              /\ projects' = projects /\ heap' = heap
        /\ (pc = "notify" /\ caller = "submit") =>
              projects' = projects /\ heap' = heap
        /\ (pc = "notify" /\ caller = "submit" /\ pc' = "idle") =>
              /\ titleInputElement' = <<>>
              /\ descriptionInputElement' = <<>>
              /\ peopleInputElement' = <<>>
      ]_vars

\* C11 witness: a submit with a padded title, a description of length 6
\* ending in a blank and the people count " 3 " has been accepted and has
\* returned
C11_Witness ==
    /\ Idle
    /\ Len(projects) = 1
    /\ heap[projects[1]].title = <<" ", "a", " ">>
    /\ heap[projects[1]].description = <<"a", "b", "c", "d", "e", " ">>
    /\ heap[projects[1]].people = Num(3)
    /\ titleInputElement = <<>>
    /\ log # <<>> /\ log[1].call = "addProject"


\* ============================================ validate on its own: SpecValidate
\* The values and the constraints validate is called with.
ValidateValues ==
    {Str(<<>>), Str(<<" ">>), Str(<<" ", " ">>),
     Str(<<"a", "b", "c">>),
     Str(<<"a", "b", "c", "d", "e">>),
     Str(<<"a", "b", "c", "d", "e", "f">>),
     Str(<<"a", "b", "c", "d", "e", "f", "g">>),
     NaN, Num(0), Num(1), Num(2), Num(5), Num(6)}

\* a member that may be absent: no field, or the field with one of the values
Optional(name, values) == {<<>>} \cup {name :> x : x \in values}

Validatables ==
    {[value |-> x] @@ r @@ mnl @@ mxl @@ mn @@ mx :
        x \in ValidateValues,
        r \in Optional("required", BOOLEAN),
        mnl \in Optional("minLength", {5}),
        mxl \in Optional("maxLength", {6}),
        mn \in Optional("min", {1}),
        mx \in Optional("max", {5})}

\* A call of validate is about to be made with some Validatable.
InitValidate ==
    /\ heap = <<>>
    /\ projects = <<>>
    /\ listeners = <<"active", "finished">>
    /\ assignedProjects = [l \in ListTypes |-> <<>>]
    /\ listEl = [l \in ListTypes |-> <<>>]
    /\ droppable = [l \in ListTypes |-> FALSE]
    /\ titleInputElement = <<>>
    /\ descriptionInputElement = <<>>
    /\ peopleInputElement = <<>>
    /\ dataTransfer = Null
    /\ over = NoTarget
    /\ pc = "idle"
    /\ caller = "none"
    /\ idx = 0
    /\ \E v \in Validatables :
          log = <<[call |-> "validate", input |-> v,
                   returned |-> FALSE, result |-> FALSE]>>
    /\ delivered = [l \in ListTypes |->
                      [array |-> [shared |-> FALSE, refs |-> <<>>],
                       items |-> <<>>, contents |-> <<>>]]

\* validate runs and returns
ValidateCall ==
    /\ Idle
    /\ log # <<>> /\ log[1].call = "validate" /\ ~log[1].returned
    /\ log' = <<[log[1] EXCEPT !.returned = TRUE,
                               !.result = validate(log[1].input)]>>
    /\ UNCHANGED <<storeVars, viewVars, droppable, inputVars, dragVars, pcVars>>

NextValidate == ValidateCall

SpecValidate == InitValidate /\ [][NextValidate]_vars

\* what the constraints ask of a value; a length bound speaks of a string
\* value and a numeric bound of a number value
NotBlank(x) ==
    x.type = "string" => \E i \in 1..Len(x.chars) : x.chars[i] # " "

ConstraintsHold(v) ==
    /\ ("required" \in DOMAIN v /\ v.required) => NotBlank(v.value)
    /\ ("minLength" \in DOMAIN v /\ v.value.type = "string") =>
          Len(v.value.chars) > v.minLength
    /\ ("maxLength" \in DOMAIN v /\ v.value.type = "string") =>
          Len(v.value.chars) < v.maxLength
    /\ ("min" \in DOMAIN v /\ v.value.type = "number") =>
          (~v.value.nan /\ v.value.val > v.min)
    /\ ("max" \in DOMAIN v /\ v.value.type = "number") =>
          (~v.value.nan /\ v.value.val < v.max)

ExampleAbc == [value |-> Str(<<"a", "b", "c">>), required |-> TRUE, minLength |-> 5]
ExampleAbcdef == [value |-> Str(<<"a", "b", "c", "d", "e", "f">>), minLength |-> 5]

\* C12: validate returns true exactly when every constraint that is present
\* holds (required: not blank; minLength and maxLength: the length strictly
\* above and below the bound; min and max: the number strictly above and
\* below the bound); "abc" with required and minLength 5 gives false and
\* "abcdef" with minLength 5 gives true.
C12_ValidateIsConjunction ==
    \A i \in 1..Len(log) :
        (log[i].call = "validate" /\ log[i].returned) =>
            /\ log[i].result <=> ConstraintsHold(log[i].input)
            /\ log[i].input = ExampleAbc => ~log[i].result
            /\ log[i].input = ExampleAbcdef => log[i].result

\* C12 witness: validate has returned false for "abc" with required and
\* minLength 5
C12_Witness ==
    /\ Len(log) = 1
    /\ log[1].call = "validate" /\ log[1].returned
    /\ log[1].input = ExampleAbc
    /\ ~log[1].result


\* ======================================================= drag and drop claims
\* a drag that started on an item of the board is in progress
ItemDrag == dataTransfer.source # Undefined

\* the step in which dropHandler, having changed a status, returns
DropReturnStep == pc = "notify" /\ caller = "drop" /\ pc' = "idle"

\* C13 as stated: a drop of a dragged item calls moveProject with the id of
\* the item's project and the status of the list; a project dropped on the
\* other list is, when the drop returns, shown by that list and not by the
\* one it came from; a project dropped on the list it is in changes nothing
\* and renders nothing.
C13_DropMovesDraggedItem ==
    [][ /\ (MoveProjectStep /\ ItemDrag) =>
              LET dragged == dataTransfer.source
                  status == StatusOf(over.target)
              IN /\ log'[1].projectId = heap[dragged].id
                 /\ log'[1].newStatus = status
                 /\ heap[dragged].status = status =>
                       /\ heap' = heap /\ projects' = projects
                       /\ pc' = "idle"
                       /\ listEl' = listEl
                       /\ assignedProjects' = assignedProjects
                 /\ heap[dragged].status # status =>
                       /\ pc' = "notify"
                       /\ heap'[dragged].status = status
        /\ (DropReturnStep /\ ItemDrag) =>
              LET dragged == dataTransfer.source IN
              /\ dragged \in Range(Shown(listEl'[over.target]))
              /\ \A l \in ListTypes \ {over.target} :
                    dragged \notin Range(Shown(listEl'[l]))
      ]_vars


\* a step in which dragOverHandler runs (log' records the event)
DragOverStep ==
    /\ pc = "idle"
    /\ Len(log') = 1 /\ log'[1].call = "dragover"

\* C14: a dragover whose dataTransfer declares text/plain as its first type
\* is accepted and gives the list the droppable class; a dragover with no
\* dataTransfer or with another first type is not accepted and leaves the
\* class of the list as it was; the other list's class is not touched.
C14_DragOverOnlyPlainText ==
    [][ DragOverStep =>
          LET event == log'[1]
              plainFirst == /\ event.dataTransfer.dragging
                            /\ event.dataTransfer.types # <<>>
                            /\ Head(event.dataTransfer.types) = "text/plain"
          IN /\ plainFirst =>
                   /\ event.defaultPrevented
                   /\ droppable'[event.type]
             /\ ~plainFirst =>
                   /\ ~event.defaultPrevented
                   /\ droppable'[event.type] = droppable[event.type]
             /\ \A l \in ListTypes \ {event.type} : droppable'[l] = droppable[l]
      ]_vars

\* C14 witness: a link (first type text/uri-list, second text/plain) has
\* been dragged over a list and was not accepted
C14_Witness ==
    /\ Idle
    /\ Len(log) = 1 /\ log[1].call = "dragover"
    /\ log[1].dataTransfer.types = <<"text/uri-list", "text/plain">>
    /\ ~log[1].defaultPrevented
    /\ ~droppable[log[1].type]


\* ============================================================= order and frame
\* C15: whenever no handler is running, the store holds the projects in the
\* order in which they were created (a reference is a creation number) and
\* each list shows its projects in that order, whatever was moved before.
C15_DisplayInInsertionOrder ==
    Idle =>
      /\ \A i \in 1..Len(projects) : projects[i] = i
      /\ \A l \in ListTypes :
            LET shown == Shown(listEl[l]) IN
            /\ \A i, j \in 1..Len(shown) : i < j => shown[i] < shown[j]
            /\ shown = SelectSeq(projects,
                                 LAMBDA r : heap[r].status = StatusOf(l))

\* C15 witness: the first of two projects has just been moved back from
\* Finished to Active and is shown before the second again
C15_Witness ==
    /\ Idle
    /\ Len(projects) = 2
    /\ heap[projects[1]].id # heap[projects[2]].id
    /\ Len(log) = 3 /\ log[1].call = "moveProject"
    /\ log[1].projectId = heap[projects[1]].id
    /\ log[1].newStatus = Active
    /\ Shown(listEl["active"]) = <<projects[1], projects[2]>>


\* C16: no step changes the id, title, description or people of a project
\* or takes a project out of the collection; a step that changes a status
\* is a call of moveProject by dropHandler, and it sets the status
\* moveProject was called with.
C16_OnlyStoreChangesStatus ==
    [][ /\ Len(heap') >= Len(heap)
        /\ \A r \in 1..Len(heap) :
              [heap'[r] EXCEPT !.status = heap[r].status] = heap[r]
        /\ Len(projects') >= Len(projects)
        /\ \A i \in 1..Len(projects) : projects'[i] = projects[i]
        /\ \A r \in 1..Len(heap) :
              heap'[r].status # heap[r].status =>
                 /\ MoveProjectStep
                 /\ heap[r].id = log'[1].projectId
                 /\ heap'[r].status = log'[1].newStatus
      ]_vars

\* C16 witness: after two submits and a move that has returned, the store
\* holds both projects with the title, description and people entered
C16_Witness ==
    /\ Idle
    /\ Len(projects) = 2
    /\ Len(log) = 3 /\ log[1].call = "moveProject"
    /\ heap[projects[2]].status = Finished
    /\ \A i \in 1..2 :
          /\ heap[projects[i]].title = <<"a">>
          /\ heap[projects[i]].people = Num(3)


\* C17 as stated: a list carries the droppable class only while a drag whose
\* last dragover it accepted is over it; with no drag in progress neither
\* list carries it.
C17_DroppableOnlyWhileDraggedOver ==
    \A l \in ListTypes :
        droppable[l] =>
            /\ dataTransfer # Null
            /\ over = [target |-> l, accepted |-> TRUE]


\* C18 as stated: when the drop of a dragged item on a list has been
\* handled, the project of that item has the status of the list and is
\* shown by the list.
C18_EveryProjectCanBeMoved ==
    [][ ((DropReturnStep \/ (MoveProjectStep /\ pc' = "idle")) /\ ItemDrag) =>
            /\ heap'[dataTransfer.source].status = StatusOf(over.target)
            /\ dataTransfer.source \in Range(Shown(listEl'[over.target]))
      ]_vars

\* C19 as stated: whenever no handler is running, for every Active project
\* of the store, moveProject with its id to Finished and then to Active
\* notifies the listeners both times and ends with every project as it
\* was and both lists rendering what they show now.
C19_MoveThereAndBack ==
    Idle =>
      \A i \in 1..Len(projects) :
        heap[projects[i]].status = Active =>
          LET id == heap[projects[i]].id
              there == moveProject(heap, projects, id, Finished)
              back == moveProject(there.heap, projects, id, Active)
          IN /\ there.notify
             /\ back.notify
             /\ Resolve(projects, back.heap) = Resolve(projects, heap)
             /\ \A l \in ListTypes :
                   renderProjects(listEl[l],
                                  relevantProjects(l, projects, back.heap),
                                  back.heap) = listEl[l]

====
